---------------------------- MODULE Spec2Model ----------------------------
(***************************************************************************)
(* IP firewall middleware of the firewall app (Django).                    *)
(*                                                                         *)
(* Text is modelled as a sequence of symbols.  An IP literal is one        *)
(* symbol, so the address 127.0.0.1 is the one-symbol text                 *)
(* <<"127.0.0.1">>; a blank and a comma are symbols of their own, so the   *)
(* header value " 127.0.0.1,8.8.8.8" is <<" ", "127.0.0.1", ",",           *)
(* "8.8.8.8">>.  The empty text is <<>>.                                   *)
(***************************************************************************)
EXTENDS Naturals, Sequences, FiniteSets

VARIABLES
    AllowedIP,      \* table firewall_allowedip: set of rows
    BlockedIPLog,   \* table firewall_blockediplog: rows in insertion order
    migrated,       \* migration 0002 has been applied
    dbWritable,     \* the database accepts INSERTs (infrastructure state)
    pc,             \* per worker: position of IPFirewallMiddleware.__call__
    request,        \* per worker: the request being processed
    allowed_ips,    \* per worker: local allowed_ips of __call__
    remote_ip,      \* per worker: local remote_ip of __call__
    response,       \* per worker: what __call__ returned (or raised)
    startTable,     \* history: content of AllowedIP when the request started
    calls,          \* history: invocations of get_response for the request
    created,        \* history: ids of the BlockedIPLog rows created for the request
    nreq,           \* history: requests received so far
    ndenied,        \* history: requests that took the deny branch so far
    nedits          \* history: administrative edits so far

vars == <<AllowedIP, BlockedIPLog, migrated, dbWritable, pc, request,
          allowed_ips, remote_ip, response, startTable, calls, created,
          nreq, ndenied, nedits>>

---------------------------------------------------------------------------
(* Bounds *)

MaxRequests == 2    \* requests received in one behaviour
MaxEdits == 1       \* administrative edits in one behaviour
MaxHdrLen == 3      \* symbols in a forwarding header (SpecResolver)

---------------------------------------------------------------------------
(* Values *)

Loopback == <<"127.0.0.1">>
Postman  == <<"10.223.112.35">>
Outsider == <<"8.8.8.8">>

\* Python's None.  The symbol is outside every alphabet used for text, so None
\* differs from every text.
None == <<"<None>">>

\* IP literals that pass GenericIPAddressField validation in the admin form.
IPs == {Loopback, Postman, Outsider}

\* AllowedIP.description as typed into the admin form (blank=True).
Descriptions == {<<>>}

Workers == {"w1", "w2"}

Paths == {<<"/">>, <<"/admin/">>}

\* Symbols of a forwarding header.
HdrChars == {"127.0.0.1", "8.8.8.8", " ", ","}

RECURSIVE TextsUpTo(_, _)
TextsUpTo(chars, n) ==
    IF n = 0 THEN {<<>>}
    ELSE LET shorter == TextsUpTo(chars, n - 1)
         IN  shorter \cup {Append(t, c) : t \in shorter, c \in chars}

GatePeers == {Loopback, Outsider, <<>>}

\* Requests reaching the gate: direct connections from the loopback address
\* and from an outsider, a connection with an empty and one with no peer
\* address, and two requests through a proxy.
Meta(hdr, peer) ==
    [k \in {"HTTP_X_FORWARDED_FOR", "REMOTE_ADDR"} |-> IF k = "REMOTE_ADDR" THEN peer ELSE hdr]
MetaNoHeader(peer) == [k \in {"REMOTE_ADDR"} |-> peer]
MetaEmpty == [k \in {} |-> <<>>]
GateMetas ==
    {MetaNoHeader(Loopback), MetaNoHeader(Outsider), MetaNoHeader(<<>>), MetaEmpty,
     Meta(<<" ", "127.0.0.1">>, Outsider),
     Meta(<<"8.8.8.8", ",", "127.0.0.1">>, Loopback)}

\* Requests given to the resolver in SpecResolver: every header of up to MaxHdrLen symbols, or
\* none, with every peer address, or none.
ResolverHeaders == TextsUpTo(HdrChars, MaxHdrLen)
ResolverMetas ==
    {Meta(h, p) : h \in ResolverHeaders, p \in GatePeers}
    \cup {MetaNoHeader(p) : p \in GatePeers}
    \cup {[k \in {"HTTP_X_FORWARDED_FOR"} |-> h] : h \in ResolverHeaders}
    \cup {MetaEmpty}

---------------------------------------------------------------------------
(* Python and Django primitives used by the middleware *)

\* dict.get(key): the value, or None when the key is missing.
Get(d, k) == IF k \in DOMAIN d THEN d[k] ELSE None

\* Truth value of a str-or-None: None and '' are false.
Truthy(v) == v # None /\ v # <<>>

\* str.split(sep): the maximal pieces between occurrences of sep.
RECURSIVE Split(_, _)
Split(s, sep) ==
    IF \A i \in 1..Len(s) : s[i] # sep THEN <<s>>
    ELSE LET i == CHOOSE j \in 1..Len(s) :
                      s[j] = sep /\ \A k \in 1..(j - 1) : s[k] # sep
         IN  <<SubSeq(s, 1, i - 1)>> \o Split(SubSeq(s, i + 1, Len(s)), sep)

\* Formatting of a value inside an f-string.
Str(v) == IF v = None THEN <<"None">> ELSE v

\* get_client_ip testing the header with "is not None" instead of its truth value.
get_client_ip_IsNotNone(req) ==
    LET x_forwarded_for == Get(req.META, "HTTP_X_FORWARDED_FOR")
    IN  IF x_forwarded_for # None
        THEN Split(x_forwarded_for, ",")[1]
        ELSE Get(req.META, "REMOTE_ADDR")

\* IPFirewallMiddleware.get_client_ip
get_client_ip(req) ==
    LET x_forwarded_for == Get(req.META, "HTTP_X_FORWARDED_FOR")
    IN  IF Truthy(x_forwarded_for)
        THEN Split(x_forwarded_for, ",")[1]
        ELSE Get(req.META, "REMOTE_ADDR")

\* The ip_address column of AllowedIP (unique=True).
Addresses(table) == {row.ip_address : row \in table}

\* The allowlist as a list built once at start-up from the seeded table.
AllowedListAtStartup(table) == {<<"127.0.0.1">>, <<"10.223.112.35">>}

\* [ip.ip_address for ip in AllowedIP.objects.all()]; only membership is
\* tested on the list, so it is kept as the set of its elements.
AllowedList(table) == {row.ip_address : row \in table}

\* The membership test with the comparison dropped: every request is denied.
NotAllowedAlways(ip, allowed) == TRUE

\* remote_ip not in allowed_ips
NotAllowed(ip, allowed) == ip \notin allowed

\* HttpResponseForbidden(f"Access denied for IP: {remote_ip}")
HttpResponseForbidden(ip) ==
    [status |-> 403, body |-> <<"Access denied for IP: ">> \o Str(ip)]

\* self.get_response(request): the downstream handler's response.
get_response(req) == [status |-> 200, body |-> <<"view of ">> \o req.path]

\* The exception that leaves __call__ when BlockedIPLog.objects.create raises.
Raised == [status |-> 500, body |-> <<"uncaught database error">>]

\* BlockedIPLog.ip_address is GenericIPAddressField() without null=True: the
\* column is NOT NULL.  None, and '' which the field stores as NULL, violate it.
StoredAsNull(ip) == ip = None \/ ip = <<>>

\* BlockedIPLog.objects.create(ip_address=..., accessed_path=...) succeeds.
CreateSucceeds(ip, writable) == writable /\ ~StoredAsNull(ip)

\* create() called with a constant path instead of request.path.
NewLogRowRootPath(log, ip, path) ==
    [id |-> Len(log) + 1, ip_address |-> ip, accessed_path |-> <<"/">>]

\* The row BlockedIPLog.objects.create inserts (id is the auto primary key;
\* the auto_now_add timestamp follows insertion order).
NewLogRow(log, ip, path) ==
    [id |-> Len(log) + 1, ip_address |-> ip, accessed_path |-> path]

---------------------------------------------------------------------------
(* State machine *)

NoRequest == [META |-> [k \in {} |-> <<>>], path |-> <<>>]
NoResponse == [status |-> 0, body |-> <<>>]

Init ==
    /\ AllowedIP = {}
    /\ BlockedIPLog = <<>>
    /\ migrated = FALSE
    /\ dbWritable = TRUE
    /\ pc = [w \in Workers |-> "idle"]
    /\ request = [w \in Workers |-> NoRequest]
    /\ allowed_ips = [w \in Workers |-> {}]
    /\ remote_ip = [w \in Workers |-> None]
    /\ response = [w \in Workers |-> NoResponse]
    /\ startTable = [w \in Workers |-> {}]
    /\ calls = [w \in Workers |-> 0]
    /\ created = [w \in Workers |-> {}]
    /\ nreq = 0
    /\ ndenied = 0
    /\ nedits = 0

gateVars == <<pc, request, allowed_ips, remote_ip, response, startTable,
              calls, created, nreq, ndenied>>

\* The migration without its first create().
SeedRowsNoLoopback ==
    {[ip_address |-> Postman, description |-> <<"Postman test">>]}

\* Migration 0002_auto_add_localhost: the rows add_default_ip creates.
SeedRows ==
    {[ip_address |-> Loopback, description |-> <<"localhost default access">>],
     [ip_address |-> Postman, description |-> <<"Postman test">>]}

\* Migration 0002_auto_add_localhost: add_default_ip
add_default_ip ==
    /\ ~migrated
    /\ dbWritable
    /\ \A row \in SeedRows : row.ip_address \notin Addresses(AllowedIP)
    /\ AllowedIP' = AllowedIP \cup SeedRows
    /\ migrated' = TRUE
    /\ UNCHANGED <<BlockedIPLog, dbWritable, nedits>>
    /\ UNCHANGED gateVars

\* AllowedIPAdmin: add view.  ip_address is validated and unique.
AdminAdd ==
    /\ migrated
    /\ dbWritable
    /\ nedits < MaxEdits
    /\ \E ip \in IPs, d \in Descriptions :
        /\ ip \notin Addresses(AllowedIP)
        /\ AllowedIP' = AllowedIP \cup {[ip_address |-> ip, description |-> d]}
    /\ nedits' = nedits + 1
    /\ UNCHANGED <<BlockedIPLog, migrated, dbWritable>>
    /\ UNCHANGED gateVars

\* AllowedIPAdmin: change view.  The new ip_address is validated and unique.
AdminChange ==
    /\ migrated
    /\ dbWritable
    /\ nedits < MaxEdits
    /\ \E row \in AllowedIP, ip \in IPs :
        /\ ip \notin Addresses(AllowedIP)
        /\ AllowedIP' = (AllowedIP \ {row})
                            \cup {[ip_address |-> ip, description |-> row.description]}
    /\ nedits' = nedits + 1
    /\ UNCHANGED <<BlockedIPLog, migrated, dbWritable>>
    /\ UNCHANGED gateVars

\* AllowedIPAdmin: delete view.
AdminDelete ==
    /\ migrated
    /\ dbWritable
    /\ nedits < MaxEdits
    /\ \E row \in AllowedIP : AllowedIP' = AllowedIP \ {row}
    /\ nedits' = nedits + 1
    /\ UNCHANGED <<BlockedIPLog, migrated, dbWritable>>
    /\ UNCHANGED gateVars

\* __call__, lines 9-10: read the allowlist, resolve the client address.
Receive(w, metas) ==
    /\ migrated
    /\ pc[w] \in {"idle", "done"}
    /\ nreq < MaxRequests
    /\ \E m \in metas, p \in Paths :
        LET req == [META |-> m, path |-> p]
        IN  /\ request' = [request EXCEPT ![w] = req]
            /\ remote_ip' = [remote_ip EXCEPT ![w] = get_client_ip(req)]
    /\ allowed_ips' = [allowed_ips EXCEPT ![w] = AllowedList(AllowedIP)]
    /\ startTable' = [startTable EXCEPT ![w] = AllowedIP]
    /\ response' = [response EXCEPT ![w] = NoResponse]
    /\ calls' = [calls EXCEPT ![w] = 0]
    /\ created' = [created EXCEPT ![w] = {}]
    /\ pc' = [pc EXCEPT ![w] = "decide"]
    /\ nreq' = nreq + 1
    /\ UNCHANGED <<AllowedIP, BlockedIPLog, migrated, dbWritable, ndenied, nedits>>

\* __call__, line 19: the address is in allowed_ips.
Forward(w) ==
    /\ pc[w] = "decide"
    /\ ~NotAllowed(remote_ip[w], allowed_ips[w])
    /\ response' = [response EXCEPT ![w] = get_response(request[w])]
    /\ calls' = [calls EXCEPT ![w] = @ + 1]
    /\ pc' = [pc EXCEPT ![w] = "done"]
    /\ UNCHANGED <<AllowedIP, BlockedIPLog, migrated, dbWritable, request,
                   allowed_ips, remote_ip, startTable, created, nreq, ndenied, nedits>>

\* __call__, lines 15-17: the row is created and the 403 returned.
Deny(w) ==
    /\ pc[w] = "decide"
    /\ NotAllowed(remote_ip[w], allowed_ips[w])
    /\ CreateSucceeds(remote_ip[w], dbWritable)
    /\ BlockedIPLog' = Append(BlockedIPLog,
                              NewLogRow(BlockedIPLog, remote_ip[w], request[w].path))
    /\ created' = [created EXCEPT ![w] = @ \cup {Len(BlockedIPLog) + 1}]
    /\ response' = [response EXCEPT ![w] = HttpResponseForbidden(remote_ip[w])]
    /\ ndenied' = ndenied + 1
    /\ pc' = [pc EXCEPT ![w] = "done"]
    /\ UNCHANGED <<AllowedIP, migrated, dbWritable, request, allowed_ips,
                   remote_ip, startTable, calls, nreq, nedits>>

\* __call__, lines 15-16: create raises; nothing catches it, line 17 is not
\* reached and the exception leaves the middleware.
DenyRaises(w) ==
    /\ pc[w] = "decide"
    /\ NotAllowed(remote_ip[w], allowed_ips[w])
    /\ ~CreateSucceeds(remote_ip[w], dbWritable)
    /\ response' = [response EXCEPT ![w] = Raised]
    /\ ndenied' = ndenied + 1
    /\ pc' = [pc EXCEPT ![w] = "done"]
    /\ UNCHANGED <<AllowedIP, BlockedIPLog, migrated, dbWritable, request,
                   allowed_ips, remote_ip, startTable, calls, created, nreq, nedits>>

Next ==
    \/ add_default_ip
    \/ AdminAdd
    \/ AdminChange
    \/ AdminDelete
    \/ \E w \in Workers : Receive(w, GateMetas)
    \/ \E w \in Workers : Forward(w)
    \/ \E w \in Workers : Deny(w)
    \/ \E w \in Workers : DenyRaises(w)

Spec == Init /\ [][Next]_vars

\* The gate with a database that may stop and resume accepting writes.
DbFails ==
    /\ dbWritable
    /\ dbWritable' = FALSE
    /\ UNCHANGED <<AllowedIP, BlockedIPLog, migrated, nedits>>
    /\ UNCHANGED gateVars

DbRecovers ==
    /\ ~dbWritable
    /\ dbWritable' = TRUE
    /\ UNCHANGED <<AllowedIP, BlockedIPLog, migrated, nedits>>
    /\ UNCHANGED gateVars

NextFault ==
    \/ Next
    \/ DbFails
    \/ DbRecovers

SpecFault == Init /\ [][NextFault]_vars

\* The resolver on every request of ResolverMetas: lines 9-10 of __call__.
NextResolver ==
    \/ add_default_ip
    \/ Receive("w1", ResolverMetas)

SpecResolver == Init /\ [][NextResolver]_vars

(* Properties *)

\* The request of worker w has been answered (or has raised).
Done(w) == pc[w] = "done"

\* A value that is an address text: neither None nor the empty text.
IsAddress(v) == v # None /\ v # <<>>

Forbidden(ip) == [status |-> 403, body |-> <<"Access denied for IP: ">> \o ip]

\* The request of w produced exactly one log row, carrying ip and the path.
OneRowFor(w, ip) ==
    \E id \in 1..Len(BlockedIPLog) :
        /\ created[w] = {id}
        /\ BlockedIPLog[id].ip_address = ip
        /\ BlockedIPLog[id].accessed_path = request[w].path

C2_AllowedIsForwarded ==
    \A w \in Workers :
        (Done(w) /\ remote_ip[w] \in allowed_ips[w])
            => /\ response[w] = [status |-> 200, body |-> <<"view of ">> \o request[w].path]
               /\ calls[w] = 1
               /\ created[w] = {}

C2_Witness ==
    \E w \in Workers :
        /\ Done(w)
        /\ remote_ip[w] \in allowed_ips[w]
        /\ response[w].status = 200
        /\ BlockedIPLog # <<>>

\* str.strip(): the text without its leading and trailing blanks.
RECURSIVE Strip(_)
Strip(s) ==
    IF s = <<>> THEN s
    ELSE IF Head(s) = " " THEN Strip(Tail(s))
    ELSE IF s[Len(s)] = " " THEN Strip(SubSeq(s, 1, Len(s) - 1))
    ELSE s

\* The symbols of the header before its first comma.
FirstEntry(h) ==
    IF \E i \in 1..Len(h) : h[i] = ","
    THEN SubSeq(h, 1, (CHOOSE i \in 1..Len(h) :
                          h[i] = "," /\ \A k \in 1..(i - 1) : h[k] # ",") - 1)
    ELSE h

HasHeader(w) ==
    /\ "HTTP_X_FORWARDED_FOR" \in DOMAIN request[w].META
    /\ request[w].META["HTTP_X_FORWARDED_FOR"] # <<>>

\* C3: when the forwarding header is present and non-empty, the resolved
\* address is the first comma-separated entry of the header with surrounding
\* whitespace trimmed, whatever the peer address is.
C3_HeaderFirstEntryTrimmed ==
    \A w \in Workers :
        (pc[w] # "idle" /\ HasHeader(w))
            => remote_ip[w] = Strip(FirstEntry(request[w].META["HTTP_X_FORWARDED_FOR"]))

\* C4: when the forwarding header is absent or empty, the resolved address is
\* the peer address of the connection, unchanged.
C4_NoHeaderResolvesToPeer ==
    \A w \in Workers :
        (pc[w] # "idle" /\ ~HasHeader(w) /\ "REMOTE_ADDR" \in DOMAIN request[w].META)
            => remote_ip[w] = request[w].META["REMOTE_ADDR"]

C4_Witness ==
    \E w \in Workers :
        /\ pc[w] # "idle"
        /\ DOMAIN request[w].META = {"HTTP_X_FORWARDED_FOR", "REMOTE_ADDR"}
        /\ request[w].META["HTTP_X_FORWARDED_FOR"] = <<>>
        /\ remote_ip[w] = <<"8.8.8.8">>

\* C5: the decision of a request is taken on the content of the allowlist
\* table at the start of that request: an address in the table then (added by
\* whatever edits came before) is forwarded, an address not in it then (never
\* added, or deleted before) is rejected with 403, and the list the request
\* decides on is never anything but that content.
C5_EditsEffectiveOnNextRequest ==
    \A w \in Workers :
        LET atStart == {row.ip_address : row \in startTable[w]}
        IN  /\ pc[w] # "idle" => allowed_ips[w] = atStart
            /\ (Done(w) /\ remote_ip[w] \in atStart)
                  => response[w].status = 200 /\ calls[w] = 1
            /\ (Done(w) /\ IsAddress(remote_ip[w]) /\ remote_ip[w] \notin atStart)
                  => response[w].status = 403 /\ calls[w] = 0

C5_Witness ==
    \E w \in Workers :
        /\ Done(w)
        /\ remote_ip[w] = <<"8.8.8.8">>
        /\ <<"8.8.8.8">> \in {row.ip_address : row \in startTable[w]}
        /\ response[w].status = 200
        /\ nedits = 1

\* C6: a denied request (its resolved address B an address text not in the
\* allowlist it read) always receives the 403 response with B echoed, also
\* when the write of its BlockedIPLog row fails.
C6_DeniedAlwaysGets403 ==
    \A w \in Workers :
        (Done(w) /\ IsAddress(remote_ip[w]) /\ remote_ip[w] \notin allowed_ips[w])
            => response[w] = Forbidden(remote_ip[w])

\* An IP literal, as opposed to an empty, missing, blank or otherwise
\* malformed client address.
IsIPLiteral(v) == v \in {<<"127.0.0.1">>, <<"10.223.112.35">>, <<"8.8.8.8">>}

\* C7: a request whose resolved address is empty, missing, or a blank or
\* non-IP token from the forwarding header is treated as not allowed: it is
\* never forwarded, it is answered 403 and exactly one BlockedIPLog row is
\* created for it, and it is never turned into a different error.
C7_MalformedAddressFailsClosed ==
    \A w \in Workers :
        (Done(w) /\ ~IsIPLiteral(remote_ip[w]))
            => /\ calls[w] = 0
               /\ response[w].status = 403
               /\ Cardinality(created[w]) = 1

\* C8: after any sequence of requests the number of BlockedIPLog rows equals
\* the number of denied requests (no deduplication, no row lost or removed).
C8_OneRowPerDeniedRequest ==
    Len(BlockedIPLog) = ndenied

\* C9: once the seeding migration has run on a first deployment (and before
\* any administrative edit), the allowlist contains 127.0.0.1, and a request
\* with peer 127.0.0.1 and no forwarding header is forwarded and adds no row.
C9_SeededLoopbackIsForwarded ==
    /\ (migrated /\ nedits = 0) => <<"127.0.0.1">> \in {row.ip_address : row \in AllowedIP}
    /\ \A w \in Workers :
        (Done(w) /\ nedits = 0 /\ request[w].META = [k \in {"REMOTE_ADDR"} |-> <<"127.0.0.1">>])
            => /\ response[w].status = 200
               /\ calls[w] = 1
               /\ created[w] = {}

C9_Witness ==
    \E w \in Workers :
        /\ Done(w)
        /\ nedits = 0
        /\ request[w].META = [k \in {"REMOTE_ADDR"} |-> <<"127.0.0.1">>]
        /\ response[w].status = 200

\* C10: under every interleaving of requests and allowlist edits, every
\* finished request is in exactly one of two outcomes decided by the allowlist
\* it read: forwarded (handler called once, no row) or rejected with 403
\* (handler never called, exactly one row).
C10_ForwardedXorRejected ==
    \A w \in Workers :
        Done(w) =>
            \/ /\ remote_ip[w] \in allowed_ips[w]
               /\ response[w].status = 200
               /\ calls[w] = 1
               /\ created[w] = {}
            \/ /\ remote_ip[w] \notin allowed_ips[w]
               /\ response[w].status = 403
               /\ calls[w] = 0
               /\ Cardinality(created[w]) = 1

=============================================================================
